---- MODULE Spec2Model ----
(***************************************************************************)
(* Model of src/download_papers.py: the title normalizer, the similarity   *)
(* scorer, the match verifier, the strategy loop of search_arxiv_by_title  *)
(* and the batch driver download_papers_from_json.                         *)
(*                                                                         *)
(* A title is a sequence of one-character strings.  A similarity is a      *)
(* double precision floating point number, computed with the roundings of  *)
(* the source.                                                             *)
(***************************************************************************)
EXTENDS Integers, Sequences, FiniteSets, TLC

(***************************************************************************)
(* Characters and strings.                                                 *)
(***************************************************************************)
UpperCase == <<"A","B","C","D","E","F","G","H","I","J","K","L","M",
               "N","O","P","Q","R","S","T","U","V","W","X","Y","Z",
               "Β","Α","Γ","Δ","Ε">>
LowerCase == <<"a","b","c","d","e","f","g","h","i","j","k","l","m",
               "n","o","p","q","r","s","t","u","v","w","x","y","z",
               "β","α","γ","δ","ε">>
Digits == {"0","1","2","3","4","5","6","7","8","9"}

\* str.lower() on one character
LowerChar(c) ==
    IF \E n \in DOMAIN UpperCase : UpperCase[n] = c
    THEN LowerCase[CHOOSE n \in DOMAIN UpperCase : UpperCase[n] = c]
    ELSE c

\* the regular-expression class \w (letters, digits and the underscore)
IsWordChar(c) ==
    \/ \E n \in DOMAIN LowerCase : LowerCase[n] = c \/ UpperCase[n] = c
    \/ c \in Digits
    \/ c = "_"

\* the regular-expression class \s
IsSpaceChar(c) == c \in {" ", "\t", "\n"}

\* s[lo:hi] of Python, on 1-based positions lo .. hi-1
Slice(s, lo, hi) == [n \in 1..(hi - lo) |-> s[lo + n - 1]]

RECURSIVE Concat(_)
\* ''.join(parts), by halves
Concat(parts) ==
    IF parts = <<>> THEN <<>>
    ELSE IF Len(parts) = 1 THEN parts[1]
    ELSE LET half == Len(parts) \div 2
         IN Concat(Slice(parts, 1, half + 1)) \o Concat(Slice(parts, half + 1, Len(parts) + 1))

\* the elements of s at the positions that satisfy Keep, in order
Filter(s, Keep(_)) ==
    LET kept == SelectSeq([n \in 1..Len(s) |-> n], Keep)
    IN [n \in 1..Len(kept) |-> s[kept[n]]]

\* `sub in s` of Python
Contains(s, sub) ==
    \E n \in 1..(Len(s) - Len(sub) + 1) :
        \A m \in 1..Len(sub) : s[n + m - 1] = sub[m]

\* position of the first occurrence of sub in s, 0 when there is none
Find(s, sub) ==
    LET at == {n \in 1..(Len(s) - Len(sub) + 1) :
                  \A m \in 1..Len(sub) : s[n + m - 1] = sub[m]}
    IN IF at = {} THEN 0 ELSE CHOOSE n \in at : \A o \in at : n <= o

\* str.split(): the maximal runs of non-whitespace characters, in order
Split(s) ==
    LET IsStart(n) == ~IsSpaceChar(s[n]) /\ (n = 1 \/ IsSpaceChar(s[n - 1]))
        starts == SelectSeq([n \in 1..Len(s) |-> n], IsStart)
        EndOf(lo) == CHOOSE hi \in lo..Len(s) :
                        /\ \A n \in lo..hi : ~IsSpaceChar(s[n])
                        /\ hi = Len(s) \/ IsSpaceChar(s[hi + 1])
    IN [n \in 1..Len(starts) |-> Slice(s, starts[n], EndOf(starts[n]) + 1)]

\* ' '.join(words)
Join(words) ==
    Concat([n \in 1..Len(words) |-> IF n = 1 THEN words[n] ELSE <<" ">> \o words[n]])

\* the distinct elements of a sequence: set(seq)
ToSet(seq) == {seq[n] : n \in DOMAIN seq}

(***************************************************************************)
(* normalize_title                                                         *)
(***************************************************************************)
stop_words == {<<"t","h","e">>, <<"a">>, <<"a","n">>, <<"a","n","d">>,
               <<"o","r">>, <<"b","u","t">>, <<"i","n">>, <<"o","n">>,
               <<"w","i","t","h">>, <<"f","o","r">>, <<"o","f">>,
               <<"t","o">>, <<"b","y">>}

\* the five str.replace calls (their patterns are single, distinct characters)
GreekName(c) ==
    CASE c = "β" -> <<"b","e","t","a">>
      [] c = "α" -> <<"a","l","p","h","a">>
      [] c = "γ" -> <<"g","a","m","m","a">>
      [] c = "δ" -> <<"d","e","l","t","a">>
      [] c = "ε" -> <<"e","p","s","i","l","o","n">>
      [] OTHER -> <<c>>

\* re.sub(r'\s+', ' ', s): each maximal run of whitespace becomes one space
CollapseSpaces(s) ==
    LET spaced == [n \in 1..Len(s) |-> IF IsSpaceChar(s[n]) THEN " " ELSE s[n]]
        Keep(n) == ~IsSpaceChar(s[n]) \/ n = 1 \/ ~IsSpaceChar(s[n - 1])
    IN Filter(spaced, Keep)

\* str.strip()
Strip(s) ==
    LET keep == {n \in 1..Len(s) : ~IsSpaceChar(s[n])}
    IN IF keep = {} THEN <<>>
       ELSE LET lo == CHOOSE n \in keep : \A o \in keep : n <= o
                hi == CHOOSE n \in keep : \A o \in keep : n >= o
            IN Slice(s, lo, hi + 1)

\* the stop words filtered before the special characters are removed
normalize_title_filter_first(title) ==
    LET lowered == [n \in 1..Len(title) |-> LowerChar(title[n])]
        filtered == Join(SelectSeq(Split(lowered), LAMBDA word : word \notin stop_words))
        cleaned == [n \in 1..Len(filtered) |->
                      IF IsWordChar(filtered[n]) \/ IsSpaceChar(filtered[n])
                      THEN filtered[n] ELSE " "]
        greek == Concat([n \in 1..Len(cleaned) |-> GreekName(cleaned[n])])
    IN Strip(CollapseSpaces(greek))

normalize_title(title) ==
    LET lowered == [n \in 1..Len(title) |-> LowerChar(title[n])]
        cleaned == [n \in 1..Len(lowered) |->
                      IF IsWordChar(lowered[n]) \/ IsSpaceChar(lowered[n])
                      THEN lowered[n] ELSE " "]
        greek == Concat([n \in 1..Len(cleaned) |-> GreekName(cleaned[n])])
        spaced == Strip(CollapseSpaces(greek))
    IN Join(SelectSeq(Split(spaced), LAMBDA word : word \notin stop_words))

(***************************************************************************)
(* Double precision floating point.  The source computes every similarity  *)
(* in IEEE 754 binary64, so two scores that are equal as fractions can     *)
(* differ in the last place.  A double x >= 0 is the record [m, e] with    *)
(* x = m * 2^e, where m is a natural number of exactly 53 bits (or zero,   *)
(* with e = 0): the representation is canonical, so two doubles are equal  *)
(* exactly when their records are.  A natural number of any size is the    *)
(* sequence of its base-2^14 digits, least significant first and without   *)
(* leading zeros.  Every operation rounds to nearest, ties to even.  An    *)
(* operand is bound to its value once, as the element of a singleton set,  *)
(* wherever it is used more than once.                                     *)
(***************************************************************************)
Min(m, n) == IF m <= n THEN m ELSE n

Base == 16384
LimbBits == 14
Precision == 53

\* 2^k for k in 0..14, at index k + 1
PowersOfTwo == <<1, 2, 4, 8, 16, 32, 64, 128, 256, 512, 1024, 2048, 4096, 8192, 16384>>

\* x without its leading zero digits
BigNorm(x) ==
    CHOOSE r \in { IF \A n \in 1..Len(v) : v[n] = 0 THEN <<>>
                   ELSE SubSeq(v, 1, CHOOSE k \in 1..Len(v) :
                                        v[k] # 0 /\ \A n \in (k + 1)..Len(v) : v[n] = 0) :
                   v \in {x} } : TRUE

\* a natural number below 2^31
BigFromNat(n) ==
    BigNorm(CHOOSE r \in { <<v % Base, (v \div Base) % Base, v \div (Base * Base)>> :
                           v \in {n} } : TRUE)

RECURSIVE BigAddCarry(_, _, _)
BigAddCarry(x, y, carry) ==
    CHOOSE r \in
        { IF xv = <<>> /\ yv = <<>> THEN (IF cv = 0 THEN <<>> ELSE <<cv>>)
          ELSE LET s == (IF xv = <<>> THEN 0 ELSE Head(xv))
                        + (IF yv = <<>> THEN 0 ELSE Head(yv)) + cv
               IN <<s % Base>> \o BigAddCarry(IF xv = <<>> THEN <<>> ELSE Tail(xv),
                                              IF yv = <<>> THEN <<>> ELSE Tail(yv),
                                              s \div Base) :
          xv \in {x}, yv \in {y}, cv \in {carry} } : TRUE

RECURSIVE BigSubBorrow(_, _, _)
\* x - y - borrow, for x >= y + borrow
BigSubBorrow(x, y, borrow) ==
    CHOOSE r \in
        { IF xv = <<>> THEN <<>>
          ELSE LET s == Head(xv) - (IF yv = <<>> THEN 0 ELSE Head(yv)) - bv
               IN <<s % Base>> \o BigSubBorrow(Tail(xv), IF yv = <<>> THEN <<>> ELSE Tail(yv),
                                               IF s < 0 THEN 1 ELSE 0) :
          xv \in {x}, yv \in {y}, bv \in {borrow} } : TRUE

RECURSIVE BigMulSmallCarry(_, _, _)
\* x * k + carry for k <= Base, with leading zero digits when x has them
BigMulSmallCarry(x, k, carry) ==
    CHOOSE r \in
        { IF xv = <<>> THEN (IF cv = 0 THEN <<>> ELSE <<cv>>)
          ELSE LET s == Head(xv) * kv + cv
               IN <<s % Base>> \o BigMulSmallCarry(Tail(xv), kv, s \div Base) :
          xv \in {x}, kv \in {k}, cv \in {carry} } : TRUE

RECURSIVE BigMul(_, _)
BigMul(x, y) ==
    CHOOSE r \in
        { IF yv = <<>> \/ xv = <<>> THEN <<>>
          ELSE BigNorm(BigAddCarry(BigMulSmallCarry(xv, Head(yv), 0),
                                   <<0>> \o BigMul(xv, Tail(yv)), 0)) :
          xv \in {x}, yv \in {y} } : TRUE

RECURSIVE BigDivModSmall(_, _)
\* quotient and remainder of x by d, for 0 < d < 2^16
BigDivModSmall(x, d) ==
    CHOOSE r \in
        { IF xv = <<>> THEN [q |-> <<>>, r |-> 0]
          ELSE CHOOSE qr \in
                   { [q |-> BigNorm(<<(hi.r * Base + Head(xv)) \div dv>> \o hi.q),
                      r |-> (hi.r * Base + Head(xv)) % dv] :
                     hi \in {BigDivModSmall(Tail(xv), dv)} } : TRUE :
          xv \in {x}, dv \in {d} } : TRUE

\* the number of bits of x
BigBitLen(x) ==
    CHOOSE r \in { IF xv = <<>> THEN 0
                   ELSE LimbBits * (Len(xv) - 1)
                        + Cardinality({k \in DOMAIN PowersOfTwo : PowersOfTwo[k] <= xv[Len(xv)]}) :
                   xv \in {x} } : TRUE

\* x * 2^k
BigShiftLeft(x, k) ==
    CHOOSE r \in
        { IF xv = <<>> THEN <<>>
          ELSE [n \in 1..(kv \div LimbBits) |-> 0]
               \o BigNorm(BigMulSmallCarry(xv, PowersOfTwo[(kv % LimbBits) + 1], 0)) :
          xv \in {x}, kv \in {k} } : TRUE

\* floor(x / 2^k), and whether a nonzero bit was shifted out
BigShiftRight(x, k) ==
    CHOOSE r \in
        { CHOOSE qs \in
              { [q |-> dm.q,
                 sticky |-> dm.r # 0 \/ \E n \in 1..Min(kv \div LimbBits, Len(xv)) : xv[n] # 0] :
                dm \in {BigDivModSmall(SubSeq(xv, kv \div LimbBits + 1, Len(xv)),
                                       PowersOfTwo[(kv % LimbBits) + 1])} } : TRUE :
          xv \in {x}, kv \in {k} } : TRUE

BigGreater(x, y) ==
    \E xv \in {x}, yv \in {y} :
        \/ Len(xv) > Len(yv)
        \/ /\ Len(xv) = Len(yv)
           /\ \E k \in 1..Len(xv) :
                 xv[k] > yv[k] /\ \A n \in (k + 1)..Len(xv) : xv[n] = yv[n]

\* the double nearest to (2 * q + guard + fraction) * 2^(exponent - 1), where q
\* has 53 bits, guard is 0 or 1, and fraction is in (0, 1) when sticky and 0
\* otherwise
RoundHalfEven(q, guard, sticky, exponent) ==
    CHOOSE r \in
        { IF guard = 1 /\ (sticky \/ qv[1] % 2 = 1)
          THEN CHOOSE d \in
                   { IF BigBitLen(up) > Precision
                     THEN [m |-> BigDivModSmall(up, 2).q, e |-> exponent + 1]
                     ELSE [m |-> up, e |-> exponent] :
                     up \in {BigAddCarry(qv, <<1>>, 0)} } : TRUE
          ELSE [m |-> qv, e |-> exponent] :
          qv \in {q} } : TRUE

\* the double nearest to mantissa * 2^exponent (plus, when sticky, a nonzero
\* fraction of the last place of the mantissa), ties to even
RoundToDouble(mantissa, exponent, sticky) ==
    CHOOSE r \in
        { CHOOSE b \in
              { IF bits = 0 THEN [m |-> <<>>, e |-> 0]
                ELSE IF bits <= Precision
                THEN [m |-> BigShiftLeft(mv, Precision - bits), e |-> ev - (Precision - bits)]
                ELSE CHOOSE d \in
                         { CHOOSE h \in
                               { RoundHalfEven(half.q, half.r, ext.sticky \/ sv,
                                               ev + bits - Precision) :
                                 half \in {BigDivModSmall(ext.q, 2)} } : TRUE :
                           ext \in {BigShiftRight(mv, bits - Precision - 1)} } : TRUE :
                bits \in {BigBitLen(mv)} } : TRUE :
          mv \in {mantissa}, ev \in {exponent}, sv \in {sticky} } : TRUE

\* the double nearest to num / den, for naturals num and 0 < den < 2^16: a
\* float literal (0.7 is Double(7, 10)), float() of an integer, or the true
\* division of two integers
Double(num, den) ==
    CHOOSE r \in
        \* the quotient of num * 2^70 by den has more than 53 bits
        { RoundToDouble(dm.q, 0 - 70, dm.r # 0) :
          dm \in {BigDivModSmall(BigShiftLeft(BigFromNat(num), 70), den)} } : TRUE

FloatMul(x, y) ==
    CHOOSE r \in { IF xv.m = <<>> \/ yv.m = <<>> THEN [m |-> <<>>, e |-> 0]
                   ELSE RoundToDouble(BigMul(xv.m, yv.m), xv.e + yv.e, FALSE) :
                   xv \in {x}, yv \in {y} } : TRUE

FloatAdd(x, y) ==
    CHOOSE r \in
        { IF xv.m = <<>> THEN yv
          ELSE IF yv.m = <<>> THEN xv
          ELSE RoundToDouble(BigAddCarry(BigShiftLeft(xv.m, xv.e - Min(xv.e, yv.e)),
                                         BigShiftLeft(yv.m, yv.e - Min(xv.e, yv.e)), 0),
                             Min(xv.e, yv.e), FALSE) :
          xv \in {x}, yv \in {y} } : TRUE

\* > where the code has >=
FloatGEStrict(x, y) ==
    \E xv \in {x}, yv \in {y} :
        IF xv.m = <<>> THEN FALSE
        ELSE IF yv.m = <<>> THEN TRUE
        ELSE xv.e > yv.e \/ (xv.e = yv.e /\ BigGreater(xv.m, yv.m))

FloatGT(x, y) ==
    \E xv \in {x}, yv \in {y} :
        IF xv.m = <<>> THEN FALSE
        ELSE IF yv.m = <<>> THEN TRUE
        ELSE xv.e > yv.e \/ (xv.e = yv.e /\ BigGreater(xv.m, yv.m))

FloatGE(x, y) == ~FloatGT(y, x)

\* x - y for x >= y
FloatSub(x, y) ==
    CHOOSE r \in
        { IF yv.m = <<>> THEN xv
          ELSE RoundToDouble(BigNorm(BigSubBorrow(BigShiftLeft(xv.m, xv.e - Min(xv.e, yv.e)),
                                                  BigShiftLeft(yv.m, yv.e - Min(xv.e, yv.e)),
                                                  0)),
                             Min(xv.e, yv.e), FALSE) :
          xv \in {x}, yv \in {y} } : TRUE

\* the float literals of the source
Float_0_0 == Double(0, 1)
Float_0_2 == Double(2, 10)
Float_0_3 == Double(3, 10)
Float_0_4 == Double(4, 10)
Float_0_5 == Double(5, 10)
Float_0_7 == Double(7, 10)
Float_0_8 == Double(8, 10)
Float_1_0 == Double(1, 1)
Float_2_0 == Double(2, 1)

(***************************************************************************)
(* difflib.SequenceMatcher(None, a, b).ratio(): no junk test, and the      *)
(* automatic junk heuristic only applies to sequences of 200 elements or   *)
(* more.                                                                   *)
(***************************************************************************)
\* length of the longest common prefix of a[p..ahi) and b[q..bhi)
MatchLen(a, b, p, q, ahi, bhi) ==
    LET Stop(m) == p + m >= ahi \/ q + m >= bhi \/ a[p + m] # b[q + m]
    IN CHOOSE m \in 0..Min(ahi - p, bhi - q) : Stop(m) /\ \A o \in 0..(m - 1) : ~Stop(o)

\* find_longest_match: a longest block a[p..p+k) = b[q..q+k) within
\* a[alo..ahi) and b[blo..bhi), as <<p, q, k>>; of those the one starting
\* earliest in a, and of those the one starting earliest in b
find_longest_match(a, b, alo, ahi, blo, bhi) ==
    LET blocks == {<<p, q, MatchLen(a, b, p, q, ahi, bhi)>> :
                      p \in alo..(ahi - 1), q \in blo..(bhi - 1)}
        Better(x, y) == \/ x[3] > y[3]
                        \/ x[3] = y[3] /\ x[1] < y[1]
                        \/ x[3] = y[3] /\ x[1] = y[1] /\ x[2] <= y[2]
    IN IF blocks = {} THEN <<alo, blo, 0>>
       ELSE CHOOSE x \in blocks : \A y \in blocks : Better(x, y)

RECURSIVE MatchCount(_, _, _, _, _, _)
\* the sum of the sizes of get_matching_blocks()
MatchCount(a, b, alo, ahi, blo, bhi) ==
    LET x == find_longest_match(a, b, alo, ahi, blo, bhi)
    IN IF x[3] = 0 THEN 0
       ELSE x[3]
            + (IF alo < x[1] /\ blo < x[2]
               THEN MatchCount(a, b, alo, x[1], blo, x[2]) ELSE 0)
            + (IF x[1] + x[3] < ahi /\ x[2] + x[3] < bhi
               THEN MatchCount(a, b, x[1] + x[3], ahi, x[2] + x[3], bhi) ELSE 0)

\* the matches counted once: matches / (len(a) + len(b))
SequenceRatioUndoubled(a, b) ==
    IF Len(a) + Len(b) = 0 THEN Float_1_0
    ELSE Double(MatchCount(a, b, 1, Len(a) + 1, 1, Len(b) + 1), Len(a) + Len(b))

\* ratio(): 2.0 * matches / (len(a) + len(b)), and 1.0 for two empty sequences
SequenceRatio(a, b) ==
    IF Len(a) + Len(b) = 0 THEN Float_1_0
    ELSE Double(2 * MatchCount(a, b, 1, Len(a) + 1, 1, Len(b) + 1), Len(a) + Len(b))

(***************************************************************************)
(* title_similarity                                                        *)
(***************************************************************************)
\* the word overlap weighted 0.3 where the code has 0.2
title_similarity_overweight(title1, title2) ==
    LET Weighted(norm_title1, norm_title2) ==
            LET basic_similarity == SequenceRatio(norm_title1, norm_title2)
                contained == \/ Contains(norm_title2, norm_title1)
                             \/ Contains(norm_title1, norm_title2)
                words1 == ToSet(Split(norm_title1))
                words2 == ToSet(Split(norm_title2))
                word_overlap ==
                    IF words1 # {} /\ words2 # {}
                    THEN Double(Cardinality(words1 \cap words2),
                                Min(Cardinality(words1), Cardinality(words2)))
                    ELSE Float_0_0
            IN FloatAdd(FloatAdd(FloatMul(Float_0_5, basic_similarity),
                                 FloatMul(Float_0_3,
                                          IF contained THEN Float_1_0 ELSE Float_0_0)),
                        FloatMul(Float_0_3, word_overlap))
    IN CHOOSE r \in {Weighted(norm_title1, norm_title2) :
                        norm_title1 \in {normalize_title(title1)},
                        norm_title2 \in {normalize_title(title2)}} : TRUE

title_similarity(title1, title2) ==
    LET Weighted(norm_title1, norm_title2) ==
            LET basic_similarity == SequenceRatio(norm_title1, norm_title2)
                contained == \/ Contains(norm_title2, norm_title1)
                             \/ Contains(norm_title1, norm_title2)
                words1 == ToSet(Split(norm_title1))
                words2 == ToSet(Split(norm_title2))
                word_overlap ==
                    IF words1 # {} /\ words2 # {}
                    THEN Double(Cardinality(words1 \cap words2),
                                Min(Cardinality(words1), Cardinality(words2)))
                    ELSE Float_0_0
            \* 0.5 * basic_similarity + 0.3 * float(contained) + 0.2 * word_overlap,
            \* each product and each sum rounded, the sums from left to right
            IN FloatAdd(FloatAdd(FloatMul(Float_0_5, basic_similarity),
                                 FloatMul(Float_0_3,
                                          IF contained THEN Float_1_0 ELSE Float_0_0)),
                        FloatMul(Float_0_2, word_overlap))
    \* each normalized title is computed once
    IN CHOOSE r \in {Weighted(norm_title1, norm_title2) :
                        norm_title1 \in {normalize_title(title1)},
                        norm_title2 \in {normalize_title(title2)}} : TRUE

(***************************************************************************)
(* verify_paper_match                                                      *)
(***************************************************************************)
\* the list without its second phrase
blacklist_patterns_short ==
    { <<"e","x","i","s","t","e","n","c","e"," ","o","f"," ","w","e","a","k"," ",
        "s","o","l","u","t","i","o","n","s">>,
      <<"d","a","r","c","y"," ","l","a","w">>,
      <<"e","l","e","c","t","r","o","n","i","c"," ","h","e","a","l","t","h"," ",
        "r","e","c","o","r","d","s">>,
      <<"m","u","l","t","i","m","o","d","a","l"," ","e","l","e","c","t","r","o","n","i","c">> }

blacklist_patterns ==
    { <<"e","x","i","s","t","e","n","c","e"," ","o","f"," ","w","e","a","k"," ",
        "s","o","l","u","t","i","o","n","s">>,
      <<"c","o","n","t","i","n","u","i","t","y"," ","e","q","u","a","t","i","o","n">>,
      <<"d","a","r","c","y"," ","l","a","w">>,
      <<"e","l","e","c","t","r","o","n","i","c"," ","h","e","a","l","t","h"," ",
        "r","e","c","o","r","d","s">>,
      <<"m","u","l","t","i","m","o","d","a","l"," ","e","l","e","c","t","r","o","n","i","c">> }

verify_paper_match(requested_title, candidate_title) ==
    LET Decide(similarity, norm_requested, norm_candidate) ==
            LET req_words == ToSet(Split(norm_requested))
                cand_words == ToSet(Split(norm_candidate))
                important_req_words == {w \in req_words : Len(w) > 4}
                important_cand_words == {w \in cand_words : Len(w) > 4}
                important_word_overlap ==
                    IF important_req_words # {}
                    THEN Double(Cardinality(important_req_words \cap important_cand_words),
                                Cardinality(important_req_words))
                    ELSE Float_0_0
                lower_candidate ==
                    [n \in 1..Len(norm_candidate) |-> LowerChar(norm_candidate[n])]
                lower_requested ==
                    [n \in 1..Len(norm_requested) |-> LowerChar(norm_requested[n])]
                blacklisted == \E pattern \in blacklist_patterns :
                                  /\ Contains(lower_candidate, pattern)
                                  /\ ~Contains(lower_requested, pattern)
                len_ratio == IF norm_requested # <<>>
                             THEN Double(Len(norm_candidate), Len(norm_requested))
                             ELSE Float_0_0
                too_long == FloatGT(len_ratio, Float_2_0)
            IN IF blacklisted
               THEN [is_match |-> FALSE, similarity |-> Float_0_0,
                     reason |-> "Blacklisted pattern detected"]
               ELSE IF too_long
               THEN [is_match |-> FALSE, similarity |-> similarity,
                     reason |-> "Candidate title too long"]
               ELSE IF FloatGE(similarity, Float_0_7)
               THEN [is_match |-> TRUE, similarity |-> similarity,
                     reason |-> "High similarity"]
               ELSE IF FloatGE(important_word_overlap, Float_0_8)
               THEN [is_match |-> TRUE, similarity |-> similarity,
                     reason |-> "High important word overlap"]
               ELSE IF \/ Contains(norm_candidate, norm_requested)
                       \/ Contains(norm_requested, norm_candidate)
               THEN [is_match |-> TRUE, similarity |-> similarity,
                     reason |-> "Title containment"]
               ELSE [is_match |-> FALSE, similarity |-> similarity,
                     reason |-> "Low similarity"]
    \* the similarity and each normalized title are computed once
    IN CHOOSE r \in {Decide(similarity, norm_requested, norm_candidate) :
                        similarity \in {title_similarity(requested_title, candidate_title)},
                        norm_requested \in {normalize_title(requested_title)},
                        norm_candidate \in {normalize_title(candidate_title)}} : TRUE

(***************************************************************************)
(* extract_arxiv_id and the venue test of download_papers_from_json.  A    *)
(* URL is a sequence of one-character strings.                             *)
(***************************************************************************)
\* the value None of Python, distinct from every string
None == <<"None">>

\* the length of the longest run of digits of s that starts at position n
DigitRun(s, n) ==
    CHOOSE m \in 0..(Len(s) - n + 1) :
        /\ \A o \in 0..(m - 1) : s[n + o] \in Digits
        /\ n + m > Len(s) \/ s[n + m] \notin Digits

\* re.search(prefix + r'(\d+\.\d+)', url).group(1), None without a match
SearchId(url, prefix) ==
    LET IdAt(n) == LET d1 == DigitRun(url, n)
                       d2 == IF n + d1 + 1 <= Len(url) + 1 /\ n + d1 <= Len(url)
                             THEN DigitRun(url, n + d1 + 1) ELSE 0
                   IN IF d1 > 0 /\ n + d1 <= Len(url) /\ url[n + d1] = "." /\ d2 > 0
                      THEN Slice(url, n, n + d1 + 1 + d2) ELSE None
        at == {n \in 1..(Len(url) - Len(prefix) + 1) :
                  /\ \A m \in 1..Len(prefix) : url[n + m - 1] = prefix[m]
                  /\ IdAt(n + Len(prefix)) # None}
    IN IF at = {} THEN None
       ELSE IdAt((CHOOSE n \in at : \A o \in at : n <= o) + Len(prefix))

ArxivOrg == <<"a","r","x","i","v",".","o","r","g">>

extract_arxiv_id(url) ==
    IF Contains(url, ArxivOrg)
    THEN LET abs == SearchId(url, ArxivOrg \o <<"/","a","b","s","/">>)
             pdf == SearchId(url, ArxivOrg \o <<"/","p","d","f","/">>)
             first == IF abs = None THEN pdf
                      ELSE IF pdf = None THEN abs
                      ELSE IF Find(url, ArxivOrg \o <<"/","a","b","s","/">> \o abs)
                              <= Find(url, ArxivOrg \o <<"/","p","d","f","/">> \o pdf)
                           THEN abs ELSE pdf
         IN IF first # None THEN first
            ELSE SearchId(url, <<"/","a","r","x","i","v",":">>)
    ELSE None

neurips_domains ==
    { <<"n","e","u","r","i","p","s">>,
      <<"n","i","p","s",".","c","c">>,
      <<"p","r","o","c","e","e","d","i","n","g","s",".","n","e","u","r","i","p","s">>,
      <<"p","r","o","c","e","e","d","i","n","g","s",".","n","i","p","s">> }

\* any(domain in paper_url.lower() for domain in [...])
IsNeurips(paper_url) ==
    LET lowered == [n \in 1..Len(paper_url) |-> LowerChar(paper_url[n])]
    IN \E domain \in neurips_domains : Contains(lowered, domain)

(***************************************************************************)
(* The batch: bounds and the values the environment can supply.            *)
(***************************************************************************)
\* the longest input list of papers
MaxPapers == 2
\* the most records the arXiv API returns in one run, over all its calls
MaxReturned == 2

\* The strings of the state are kept as strings; Characters gives the
\* characters of each, which is what the string functions work on.
Characters ==
       ("Adam Optimizer" :>
       <<"A","d","a","m"," ","O","p","t","i","m","i","z","e","r">>)
    @@ ("The Adam Optimizer" :>
       <<"T","h","e"," ","A","d","a","m"," ","O","p","t","i","m","i","z",
         "e","r">>)
    @@ ("Adam" :>
       <<"A","d","a","m">>)
    @@ ("papers.nips.cc/hash/ab1-Abstract.html" :>
       <<"p","a","p","e","r","s",".","n","i","p","s",".","c","c","/","h",
         "a","s","h","/","a","b","1","-","A","b","s","t","r","a","c","t",
         ".","h","t","m","l">>)
    @@ ("arxiv.org/abs/2310.17042" :>
       <<"a","r","x","i","v",".","o","r","g","/","a","b","s","/","2","3",
         "1","0",".","1","7","0","4","2">>)

\* the title of an arxiv.Result that has none
NoTitle == "<missing>"

\* the entries of papers.json: search_papers.py writes both keys for each
PaperPool ==
    { [paper_name |-> "Adam Optimizer", paper_url |-> "arxiv.org/abs/2310.17042"],
      [paper_name |-> "Adam", paper_url |-> "papers.nips.cc/hash/ab1-Abstract.html"] }

\* the records the arXiv API can return (arxiv.Result); one lacks its title.
\* For the title "Adam Optimizer" the verifier accepts the first three, the
\* first two with the same similarity; for the title "Adam" it accepts the
\* third only.
Repository ==
    { [title |-> "Adam Optimizer", short_id |-> "2301.00001v1",
       entry_id |-> "http://arxiv.org/abs/2301.00001v1"],
      [title |-> "The Adam Optimizer", short_id |-> "2302.00002v1",
       entry_id |-> "http://arxiv.org/abs/2302.00002v1"],
      [title |-> "Adam", short_id |-> "2310.17042v1",
       entry_id |-> "http://arxiv.org/abs/2310.17042v1"],
      [title |-> NoTitle, short_id |-> "2305.00005v1",
       entry_id |-> "http://arxiv.org/abs/2305.00005v1"] }

\* The text functions on the strings of the pools, evaluated once.
PaperTitles == {p.paper_name : p \in PaperPool}
PaperUrls == {p.paper_url : p \in PaperPool}
ResultTitles == {r.title : r \in Repository} \ {NoTitle}

VerifyTable ==
    [requested \in PaperTitles, candidate \in ResultTitles |->
        verify_paper_match(Characters[requested], Characters[candidate])]
SimilarityTable ==
    [requested \in PaperTitles, candidate \in ResultTitles |->
        title_similarity(Characters[requested], Characters[candidate])]
NeuripsTable == [url \in PaperUrls |-> IsNeurips(Characters[url])]
ArxivIdTable == [url \in PaperUrls |-> extract_arxiv_id(Characters[url])]

\* verify_paper_match(title, result.title)
Verify(requested, candidate) == VerifyTable[requested, candidate]
\* title_similarity(title, result.title)
Similarity(requested, candidate) == SimilarityTable[requested, candidate]

SeqsUpTo(S, n) == UNION {[1..m -> S] : m \in 0..n}

\* list(search.results()) of one call
Responses == SeqsUpTo(Repository, MaxReturned)

\* str(e) of an exception raised by the arxiv or requests libraries
ErrorTexts == {"HTTPError"}
\* str(e) of the exception normalize_title raises on a result without a title
NoTitleError == "'NoneType' object has no attribute 'lower'"
\* str(e) of the exception clean_filename raises on a result without a title
NoTitleFilenameError == "expected string or bytes-like object, got 'NoneType'"
\* str(e) of the exceptions that reach the except clause of the loop over papers
ExceptionTexts == ErrorTexts \cup {NoTitleFilenameError}

\* --threshold values
Thresholds == {Float_0_5, Double(95, 100)}

(***************************************************************************)
(* State.                                                                  *)
(***************************************************************************)
VARIABLES
    papers,               \* data['papers'] of the input file
    enable_manual_search, \* argument of download_papers_from_json
    similarity_threshold, \* argument of download_papers_from_json
    pc,                   \* position of the program
    i,                    \* index of the paper being processed, from 1
    is_neurips,           \* venue flag of the current paper
    strategy,             \* index of the strategy of the loop, from 1
    results,              \* `for result in results`: the candidates still to verify
    all_results,          \* search_arxiv_by_title: all_results
    verified_results,     \* search_arxiv_by_title: verified_results
    failed,               \* the last "Search strategy n failed: e" line printed for the
                          \* current paper: <<>> when none, <<line>> otherwise
    raised,               \* strategy_fn() or list(search.results()) has raised for the
                          \* current paper
    queries,              \* the strategies whose query was issued for the current paper
    found,                \* value returned by search_arxiv_by_title
    manual_results,       \* value returned by manual_search_arxiv
    downloaded_papers,    \* the results log
    results_file,         \* download_results.json: <<>> while absent, <<content>> once written
    paused,               \* time.sleep(3) has run since the last external call
    returned,             \* the number of records the arXiv API has returned
    pdf_calls,            \* the PDF download calls made for the current paper
    title_a,              \* first argument of a call of one of the text functions
    title_b,              \* second argument of the call
    applied,              \* the text function called, "none" before the call
    output,               \* the value the call returned
    previous_results,     \* download_results.json as main() finds it when it starts:
                          \* <<>> while absent, <<content>> otherwise
    no_manual             \* run_all.py: args.no_manual

vars == <<papers, enable_manual_search, similarity_threshold, pc, i, is_neurips,
          strategy, results, all_results, verified_results, failed, raised, queries, found,
          manual_results, downloaded_papers, results_file, paused, returned,
          pdf_calls, title_a, title_b, applied, output, previous_results, no_manual>>

args == <<papers, enable_manual_search, similarity_threshold, previous_results, no_manual>>
title_vars == <<title_a, title_b, applied, output>>
search_locals == <<strategy, results, all_results, verified_results, failed, raised>>

Init ==
    /\ papers \in SeqsUpTo(PaperPool, MaxPapers)
    /\ enable_manual_search \in BOOLEAN
    /\ similarity_threshold \in Thresholds
    /\ pc = "loop"
    /\ i = 1
    /\ is_neurips = FALSE
    /\ strategy = 1
    /\ results = <<>>
    /\ all_results = <<>>
    /\ verified_results = <<>>
    /\ failed = <<>>
    /\ raised = FALSE
    /\ queries = <<>>
    /\ found = <<>>
    /\ manual_results = <<>>
    /\ downloaded_papers = <<>>
    /\ results_file = <<>>
    /\ paused = FALSE
    /\ returned = 0
    /\ pdf_calls = <<>>
    /\ title_a = <<>>
    /\ title_b = <<>>
    /\ applied = "none"
    /\ output = <<>>
    /\ previous_results = <<>>
    /\ no_manual = FALSE

paper == papers[i]
title == paper.paper_name

(***************************************************************************)
(* download_papers_from_json: the records of the results log and the ways  *)
(* an iteration of the loop over papers ends.  The file names (pdf_path,    *)
(* pdf_url) of a record are left out.                                      *)
(***************************************************************************)
ArxivRecord(p, result) ==
    [paper_name |-> p.paper_name, paper_url |-> p.paper_url,
     arxiv_id |-> result.short_id, arxiv_url |-> result.entry_id,
     downloaded |-> TRUE]

ManualRecord(p, result) ==
    [paper_name |-> p.paper_name, paper_url |-> p.paper_url,
     arxiv_id |-> result.short_id, arxiv_url |-> result.entry_id,
     downloaded |-> TRUE, manual_search |-> TRUE]

DirectRecord(p) ==
    [paper_name |-> p.paper_name, paper_url |-> p.paper_url,
     downloaded |-> TRUE, direct_download |-> TRUE]

\* {**p, **extra}: the keys of p, those of extra added or replaced
Merge(p, extra) ==
    [k \in DOMAIN p \cup DOMAIN extra |-> IF k \in DOMAIN extra THEN extra[k] ELSE p[k]]

\* a failure record that counts as downloaded
FailureRecordDownloaded(p, error) ==
    Merge(p, [downloaded |-> TRUE, error |-> error])

\* {**paper, "downloaded": False, "error": error}
FailureRecord(p, error) ==
    Merge(p, [downloaded |-> FALSE, error |-> error])

\* the statement after the if/elif/else is time.sleep(3)
ToSleep == pc' = "sleep" /\ i' = i
\* `continue`, and the end of the except clause: on to the next paper
ToNextPaper == pc' = "loop" /\ i' = i + 1

\* an exception that ends the batch instead of the iteration
ExceptEndsBatch(error) ==
    /\ downloaded_papers' = Append(downloaded_papers, FailureRecord(paper, error))
    /\ pc' = "done"
    /\ i' = i

\* an except clause that starts the results log again
ExceptOverwrites(error) ==
    /\ downloaded_papers' = <<FailureRecord(paper, error)>>
    /\ ToNextPaper

\* except Exception as e: a failure record with str(e), no sleep
Except(error) ==
    /\ downloaded_papers' = Append(downloaded_papers, FailureRecord(paper, error))
    /\ ToNextPaper

(***************************************************************************)
(* search_arxiv_by_title: the strategy loop.                               *)
(***************************************************************************)
\* len(search_strategies): four base strategies, three more for NeurIPS papers
NumStrategies(neurips) == IF neurips THEN 7 ELSE 4

\* max_results of the strategy's arxiv.Search
StrategyCap(n) == IF n = 1 THEN 5 ELSE IF n <= 4 THEN 10 ELSE 20

\* `if 'papers' not in data` / `if not papers`: return before the loop
EmptyInput ==
    /\ pc = "loop"
    /\ papers = <<>>
    /\ pc' = "done"
    /\ UNCHANGED <<args, title_vars, pdf_calls, i, is_neurips, search_locals, queries, found, manual_results,
                   downloaded_papers, results_file, paused, returned>>

\* the head of the for loop over papers, up to the call of search_arxiv_by_title
StartPaper ==
    /\ pc = "loop"
    /\ i <= Len(papers)
    /\ is_neurips' = NeuripsTable[paper.paper_url]
    /\ strategy' = 1
    /\ results' = <<>>
    /\ all_results' = <<>>
    /\ verified_results' = <<>>
    /\ failed' = <<>>
    /\ raised' = FALSE
    /\ queries' = <<>>
    /\ found' = <<>>
    /\ manual_results' = <<>>
    /\ pdf_calls' = <<>>
    /\ pc' = "strategy"
    /\ UNCHANGED <<args, title_vars, i, downloaded_papers, results_file, paused, returned>>

\* a loop that tries the same strategy again
RetryStrategy == strategy' = strategy /\ pc' = "strategy"

\* the for loop over search_strategies moves to its next element or ends
NextStrategy ==
    IF strategy < NumStrategies(is_neurips)
    THEN strategy' = strategy + 1 /\ pc' = "strategy"
    ELSE strategy' = strategy /\ pc' = "select"

\* an error of the search that is not caught in search_arxiv_by_title and
\* reaches the except clause of download_papers_from_json
SearchRaisesAborts ==
    /\ pc = "strategy"
    /\ queries' = Append(queries, strategy)
    /\ paused' = FALSE
    /\ \E error \in ErrorTexts :
          /\ failed' = <<[strategy |-> strategy, error |-> error]>>
          /\ Except(error)
    /\ raised' = TRUE
    /\ UNCHANGED <<args, title_vars, pdf_calls, is_neurips, strategy, results, all_results, verified_results,
                   found, manual_results, results_file, returned>>

\* strategy_fn() or list(search.results()) raises: the except clause of the loop
SearchRaises ==
    /\ pc = "strategy"
    /\ queries' = Append(queries, strategy)
    /\ paused' = FALSE
    /\ \E error \in ErrorTexts :
          failed' = <<[strategy |-> strategy, error |-> error]>>
    /\ raised' = TRUE
    /\ NextStrategy
    /\ UNCHANGED <<args, title_vars, pdf_calls, i, is_neurips, results, all_results, verified_results,
                   found, manual_results, downloaded_papers, results_file, returned>>

\* list(search.results()) returns
SearchReturns ==
    /\ pc = "strategy"
    /\ \E response \in Responses :
        /\ Len(response) <= StrategyCap(strategy)
        /\ returned + Len(response) <= MaxReturned
        /\ returned' = returned + Len(response)
        /\ queries' = Append(queries, strategy)
        /\ paused' = FALSE
        /\ results' = response
        /\ IF response # <<>>
           THEN pc' = "verify" /\ strategy' = strategy
           ELSE NextStrategy
    /\ UNCHANGED <<args, title_vars, pdf_calls, i, is_neurips, all_results, verified_results, failed,
                   raised, found, manual_results, downloaded_papers, results_file>>

\* one iteration of `for result in results`, and what follows the last one
VerifyCandidate ==
    /\ pc = "verify"
    /\ LET result == Head(results)
           match == Verify(title, result.title)
           verified == IF match.is_match
                       THEN Append(verified_results,
                                   [result |-> result, similarity |-> match.similarity,
                                    reason |-> match.reason])
                       ELSE verified_results
       IN IF result.title = NoTitle
          THEN \* verify_paper_match raises: the except clause of the strategy loop
               /\ NextStrategy
               /\ results' = <<>>
               /\ failed' = <<[strategy |-> strategy, error |-> NoTitleError]>>
               /\ UNCHANGED <<all_results, verified_results>>
          ELSE /\ verified_results' = verified
               /\ failed' = failed
               /\ all_results' = Append(all_results, result)
               /\ results' = Tail(results)
               /\ IF Tail(results) # <<>>
                  THEN pc' = "verify" /\ strategy' = strategy
                  ELSE IF verified # <<>>
                       THEN pc' = "select" /\ strategy' = strategy
                       ELSE NextStrategy
    /\ UNCHANGED <<args, title_vars, pdf_calls, i, is_neurips, raised, queries, found, manual_results,
                   downloaded_papers, results_file, paused, returned>>

(***************************************************************************)
(* search_arxiv_by_title: the choice of the returned match.                *)
(***************************************************************************)
RECURSIVE SortTiesLastFirst(_)
\* a sort that is not stable: of equal similarities the later entry comes first
SortTiesLastFirst(entries) ==
    IF entries = <<>> THEN <<>>
    ELSE LET sorted == SortTiesLastFirst(SubSeq(entries, 1, Len(entries) - 1))
             last == entries[Len(entries)]
             ahead == SelectSeq(sorted, LAMBDA e : FloatGT(e.similarity, last.similarity))
             behind == SelectSeq(sorted, LAMBDA e : ~FloatGT(e.similarity, last.similarity))
         IN ahead \o <<last>> \o behind

RECURSIVE SortBySimilarity(_)
\* list.sort(key=lambda x: x[1], reverse=True): stable, highest similarity first
SortBySimilarity(entries) ==
    IF entries = <<>> THEN <<>>
    ELSE LET sorted == SortBySimilarity(SubSeq(entries, 1, Len(entries) - 1))
             last == entries[Len(entries)]
             ahead == SelectSeq(sorted, LAMBDA e : FloatGE(e.similarity, last.similarity))
             behind == SelectSeq(sorted, LAMBDA e : ~FloatGE(e.similarity, last.similarity))
         IN ahead \o <<last>> \o behind

RECURSIVE BestOf(_, _, _, _)
\* the loop over all_results: the first candidate of the highest similarity
\* above 0, as <<best_match, best_similarity>>; best_match is <<>> for None
\* and <<candidate>> otherwise
BestOf(requested, candidates, best_match, best_similarity) ==
    IF candidates = <<>> THEN <<best_match, best_similarity>>
    ELSE LET similarity == Similarity(requested, Head(candidates).title)
         IN IF FloatGT(similarity, best_similarity)
            THEN BestOf(requested, Tail(candidates), <<Head(candidates)>>, similarity)
            ELSE BestOf(requested, Tail(candidates), best_match, best_similarity)

\* max(0.4, similarity_threshold - 0.2) for NeurIPS papers
EffectiveThreshold(threshold, neurips) ==
    IF neurips
    THEN IF FloatGT(Float_0_2, threshold)
         THEN Float_0_4      \* the difference is negative
         ELSE LET lowered == FloatSub(threshold, Float_0_2)
              IN IF FloatGT(lowered, Float_0_4) THEN lowered ELSE Float_0_4
    ELSE threshold

\* the threshold path without its second call of verify_paper_match
SelectUnverified(requested, verified, seen, threshold) ==
    IF verified # <<>>
    THEN <<SortBySimilarity(verified)[1].result>>
    ELSE IF seen # <<>>
    THEN LET best == BestOf(requested, seen, <<>>, Float_0_0)
         IN IF best[1] # <<>> /\ FloatGE(best[2], threshold)
            THEN best[1]
            ELSE <<>>
    ELSE <<>>

\* the value search_arxiv_by_title returns after the strategy loop
SelectMatch(requested, verified, seen, threshold) ==
    IF verified # <<>>
    THEN <<SortBySimilarity(verified)[1].result>>
    ELSE IF seen # <<>>
    THEN LET best == BestOf(requested, seen, <<>>, Float_0_0)
         IN IF best[1] # <<>> /\ FloatGE(best[2], threshold)
               /\ Verify(requested, best[1][1].title).is_match
            THEN best[1]
            ELSE <<>>
    ELSE <<>>

\* what follows the strategy loop: verified_results.sort(...) sorts the list
\* in place, and the function returns
SelectResult ==
    /\ pc = "select"
    /\ verified_results' = SortBySimilarity(verified_results)
    /\ found' = SelectMatch(title, verified_results, all_results,
                            EffectiveThreshold(similarity_threshold, is_neurips))
    /\ pc' = "dispatch"
    /\ UNCHANGED <<args, title_vars, pdf_calls, i, is_neurips, strategy, results, all_results, failed,
                   raised, queries, manual_results, downloaded_papers, results_file, paused,
                   returned>>

(***************************************************************************)
(* download_papers_from_json: the branches after the search.               *)
(***************************************************************************)
\* `if results:` result.download_pdf returns
DownloadArxiv ==
    /\ pc = "dispatch"
    /\ found # <<>>
    /\ downloaded_papers' = Append(downloaded_papers, ArxivRecord(paper, found[1]))
    /\ paused' = FALSE
    /\ pdf_calls' = Append(pdf_calls, "result.download_pdf")
    /\ ToSleep
    /\ UNCHANGED <<args, title_vars, is_neurips, search_locals, queries, found, manual_results,
                   results_file, returned>>

\* `if results:` result.download_pdf raises
DownloadArxivRaises ==
    /\ pc = "dispatch"
    /\ found # <<>>
    /\ \E error \in ErrorTexts : Except(error)
    /\ paused' = FALSE
    /\ pdf_calls' = Append(pdf_calls, "result.download_pdf")
    /\ UNCHANGED <<args, title_vars, is_neurips, search_locals, queries, found, manual_results,
                   results_file, returned>>

\* str.startswith
StartsWith(s, prefix) == Len(s) >= Len(prefix) /\ SubSeq(s, 1, Len(prefix)) = prefix

\* choice = input("\nYour choice: ").strip(), for what the user types at the
\* prompt: a menu number, or an arXiv identifier typed at the first prompt
ManualChoices ==
    { Strip(typed) :
        typed \in { <<"1">>, <<"2">>, <<"3">>,
                    <<" ", "2", "3", "1", "0", ".", "1", "7", "0", "4", "2">> } }

\* the else branch of manual_search_arxiv: the paper is skipped
ManualSkips(choice) == ~StartsWith(choice, <<"1">>) /\ ~StartsWith(choice, <<"2">>)

\* manual_search_arxiv: the list it returns for the choice (the stripped
\* input), the response of its search and the selection typed
ManualOutcome(choice, response, selection) ==
    IF StartsWith(choice, <<"1">>) THEN response
    ELSE IF StartsWith(choice, <<"2">>)
    THEN IF selection \in 1..Len(response) THEN <<response[selection]>> ELSE <<>>
    ELSE <<>>

\* `elif enable_manual_search:` manual_search_arxiv returns
ManualSearch ==
    /\ pc = "dispatch"
    /\ found = <<>>
    /\ enable_manual_search
    /\ \E choice \in ManualChoices, response \in Responses,
          selection \in 0..(MaxReturned + 1) :
        /\ returned + Len(response) <= MaxReturned
        /\ returned' = returned + Len(response)
        \* no search is made in the skip branch, no selection is read in the
        \* identifier branch
        /\ ManualSkips(choice) => response = <<>> /\ selection = 0
        /\ StartsWith(choice, <<"1">>) => selection = 0
        /\ manual_results' = ManualOutcome(choice, response, selection)
        /\ paused' = (ManualSkips(choice) /\ paused)
    /\ IF manual_results' # <<>>
       THEN pc' = "manual" /\ i' = i /\ UNCHANGED downloaded_papers
       ELSE /\ downloaded_papers' =
                  Append(downloaded_papers,
                         FailureRecord(paper, "No results found on arXiv (manual search)"))
            /\ ToSleep
    /\ UNCHANGED <<args, title_vars, pdf_calls, is_neurips, search_locals, queries, found, results_file>>

\* `elif enable_manual_search:` input() or the search of manual_search_arxiv raises
ManualSearchRaises ==
    /\ pc = "dispatch"
    /\ found = <<>>
    /\ enable_manual_search
    /\ \E error \in ErrorTexts : Except(error)
    /\ paused' = FALSE
    /\ UNCHANGED <<args, title_vars, pdf_calls, is_neurips, search_locals, queries, found, manual_results,
                   results_file, returned>>

\* `if manual_results:` the download of the manually selected paper
ManualDownload ==
    /\ pc = "manual"
    /\ IF manual_results[1].title = NoTitle
       THEN \* clean_filename(result.title) raises
            Except(NoTitleFilenameError) /\ UNCHANGED <<paused, pdf_calls>>
       ELSE /\ paused' = FALSE
            /\ pdf_calls' = Append(pdf_calls, "result.download_pdf")
            /\ \/ /\ downloaded_papers' =
                        Append(downloaded_papers, ManualRecord(paper, manual_results[1]))
                  /\ ToSleep
               \/ \E error \in ErrorTexts : Except(error)
    /\ UNCHANGED <<args, title_vars, is_neurips, search_locals, queries, found, manual_results,
                   results_file, returned>>

\* a direct download attempted whatever the venue of the paper
UnresolvedDownloads ==
    /\ pc = "dispatch"
    /\ found = <<>>
    /\ ~enable_manual_search
    /\ ~is_neurips
    /\ pdf_calls' = Append(pdf_calls, "download_pdf")
    /\ downloaded_papers' =
          Append(downloaded_papers,
                 FailureRecord(paper, "No results found on arXiv and direct download failed"))
    /\ ToSleep
    /\ UNCHANGED <<args, title_vars, is_neurips, search_locals, queries, found,
                   manual_results, results_file, paused, returned>>

\* `else:` of a paper that is not a NeurIPS paper
Unresolved ==
    /\ pc = "dispatch"
    /\ found = <<>>
    /\ ~enable_manual_search
    /\ ~is_neurips
    /\ downloaded_papers' =
          Append(downloaded_papers,
                 FailureRecord(paper, "No results found on arXiv and direct download failed"))
    /\ ToSleep
    /\ UNCHANGED <<args, title_vars, pdf_calls, is_neurips, search_locals, queries, found, manual_results,
                   results_file, paused, returned>>

\* `else:` of a NeurIPS paper: download_pdf(pdf_url, output_path) returns True
DirectDownload ==
    /\ pc = "dispatch"
    /\ found = <<>>
    /\ ~enable_manual_search
    /\ is_neurips
    /\ downloaded_papers' = Append(downloaded_papers, DirectRecord(paper))
    /\ paused' = FALSE
    /\ pdf_calls' = Append(pdf_calls, "download_pdf")
    /\ ToNextPaper
    /\ UNCHANGED <<args, title_vars, is_neurips, search_locals, queries, found, manual_results,
                   results_file, returned>>

\* `else:` of a NeurIPS paper: download_pdf catches its error and returns False
DirectDownloadFails ==
    /\ pc = "dispatch"
    /\ found = <<>>
    /\ ~enable_manual_search
    /\ is_neurips
    /\ downloaded_papers' =
          Append(downloaded_papers,
                 FailureRecord(paper, "No results found on arXiv and direct download failed"))
    /\ paused' = FALSE
    /\ pdf_calls' = Append(pdf_calls, "download_pdf")
    /\ ToSleep
    /\ UNCHANGED <<args, title_vars, is_neurips, search_locals, queries, found, manual_results,
                   results_file, returned>>

\* time.sleep(3), the last statement of the try block
Sleep ==
    /\ pc = "sleep"
    /\ paused' = TRUE
    /\ ToNextPaper
    /\ UNCHANGED <<args, title_vars, pdf_calls, is_neurips, search_locals, queries, found, manual_results,
                   downloaded_papers, results_file, returned>>

\* after the loop: json.dump(download_results, f)
WriteResults ==
    /\ pc = "loop"
    /\ papers # <<>>
    /\ i > Len(papers)
    /\ results_file' = <<[papers |-> downloaded_papers]>>
    /\ pc' = "done"
    /\ UNCHANGED <<args, title_vars, pdf_calls, i, is_neurips, search_locals, queries, found, manual_results,
                   downloaded_papers, paused, returned>>

Next ==
    \/ EmptyInput
    \/ StartPaper
    \/ SearchRaises
    \/ SearchReturns
    \/ VerifyCandidate
    \/ SelectResult
    \/ DownloadArxiv
    \/ DownloadArxivRaises
    \/ ManualSearch
    \/ ManualSearchRaises
    \/ ManualDownload
    \/ Unresolved
    \/ DirectDownload
    \/ DirectDownloadFails
    \/ Sleep
    \/ WriteResults

Spec == Init /\ [][Next]_vars

TypeOK ==
    /\ pc \in {"loop", "strategy", "verify", "select", "dispatch", "manual", "sleep", "done"}
    /\ i \in 1..(Len(papers) + 1)
    /\ strategy \in 1..7
    /\ returned \in 0..MaxReturned
    /\ Len(failed) <= 1
    /\ raised \in BOOLEAN
    /\ Len(pdf_calls) <= 1

(***************************************************************************)
(* Calls of the text functions normalize_title, title_similarity and       *)
(* verify_paper_match on titles of a bounded set.                          *)
(***************************************************************************)
\* the most pieces a generated title is made of
MaxPieces == 2

\* the pieces of the generated titles: words, a stop word, separators, the
\* underscore, Greek letters, a digit, upper case
Pieces ==
    { <<"A","d","a","m">>,
      <<"T","h","e"," ">>,
      <<" ","o","f"," ">>,
      <<"-">>,
      <<"_">>,
      <<"β">>,
      <<"Β","2">>,
      <<"t","i","d","e">>,
      <<"d","i","e","t">>,
      <<" ","\t">> }

AdamOptimizerConvergence ==
    <<"A","d","a","m"," ","O","p","t","i","m","i","z","e","r"," ","C",
      "o","n","v","e","r","g","e","n","c","e">>
ExistenceOfWeakSolutions ==
    <<"E","x","i","s","t","e","n","c","e"," ","o","f"," ","W","e","a",
      "k"," ","S","o","l","u","t","i","o","n","s"," ","t","o"," ","t",
      "h","e"," ","C","o","n","t","i","n","u","i","t","y"," ","E","q",
      "u","a","t","i","o","n">>
AdoptRequested ==
    <<"A","D","O","P","T",":"," ","A","d","a","p","t","i","v","e"," ",
      "G","r","a","d","i","e","n","t"," ","M","e","t","h","o","d"," ",
      "w","i","t","h"," ","C","l","i","p","p","i","n","g">>
AdoptCandidate ==
    <<"A","d","o","p","t",":"," ","A","d","a","p","t","i","v","e"," ",
      "G","r","a","d","i","e","n","t"," ","M","e","t","h","o","d","s",
      " ","w","i","t","h"," ","C","l","i","p","p","i","n","g"," ","f",
      "o","r"," ","R","o","b","u","s","t"," ","O","p","t","i","m","i",
      "z","a","t","i","o","n">>
MadamCurie ==
    <<"A"," ","S","t","u","d","y"," ","o","f"," ","M","a","d","a","m",
      " ","C","u","r","i","e"," ","L","a","b","o","r","a","t","o","r",
      "y"," ","N","o","t","e","s">>
AdamOptimizer ==
    <<"A","d","a","m"," ","O","p","t","i","m","i","z","e","r">>
GreekTitle ==
    <<"β","-","V","A","E",":"," ","L","e","a","r","n","i","n","g"," ",
      "w","i","t","h"," ","t","h","e"," ","Α",","," ","γ",","," ","δ",
      " ","a","n","d"," ","ε">>
GreekTitleNormalized ==
    <<"b","e","t","a"," ","v","a","e"," ","l","e","a","r","n","i","n",
      "g"," ","a","l","p","h","a"," ","g","a","m","m","a"," ","d","e",
      "l","t","a"," ","e","p","s","i","l","o","n">>
ExistenceOnly ==
    <<"E","x","i","s","t","e","n","c","e"," ","o","f"," ","W","e","a",
      "k"," ","S","o","l","u","t","i","o","n","s">>
ContinuityEquation ==
    <<"T","h","e"," ","C","o","n","t","i","n","u","i","t","y"," ","E",
      "q","u","a","t","i","o","n">>
HealthRecords ==
    <<"E","l","e","c","t","r","o","n","i","c"," ","H","e","a","l","t",
      "h"," ","R","e","c","o","r","d","s">>
MultimodalElectronic ==
    <<"M","u","l","t","i","m","o","d","a","l"," ","E","l","e","c","t",
      "r","o","n","i","c">>
Darcy ==
    <<"D","a","r","c","y">>
DarcyLaw ==
    <<"D","a","r","c","y"," ","L","a","w">>
OnTheDarcyLaw ==
    <<"O","n"," ","t","h","e"," ","D","a","r","c","y"," ","L","a","w",
      " ","i","n"," ","P","o","r","o","u","s"," ","M","e","d","i","a">>

ExampleTitles ==
    { AdamOptimizerConvergence,
      ExistenceOfWeakSolutions,
      AdoptRequested,
      AdoptCandidate,
      MadamCurie,
      AdamOptimizer,
      GreekTitle,
      ExistenceOnly,
      ContinuityEquation,
      HealthRecords,
      MultimodalElectronic,
      Darcy,
      DarcyLaw,
      OnTheDarcyLaw }

\* the titles made of at most n pieces
Generated(n) == {Concat(w) : w \in SeqsUpTo(Pieces, n)}

\* the first and the second argument of the calls
TitlesA == Generated(MaxPieces) \cup ExampleTitles
TitlesB == Generated(1) \cup ExampleTitles

\* no paper is being processed while the text functions are called alone
TitleInit ==
    /\ title_a \in TitlesA
    /\ title_b \in TitlesB
    /\ applied = "none"
    /\ output = <<>>
    /\ previous_results = <<>>
    /\ no_manual = FALSE
    /\ papers = <<>>
    /\ enable_manual_search = FALSE
    /\ similarity_threshold = Float_0_5
    /\ pc = "done"
    /\ i = 1
    /\ is_neurips = FALSE
    /\ strategy = 1
    /\ results = <<>>
    /\ all_results = <<>>
    /\ verified_results = <<>>
    /\ failed = <<>>
    /\ raised = FALSE
    /\ queries = <<>>
    /\ found = <<>>
    /\ manual_results = <<>>
    /\ downloaded_papers = <<>>
    /\ results_file = <<>>
    /\ paused = FALSE
    /\ returned = 0
    /\ pdf_calls = <<>>

batch_vars == <<args, pc, i, is_neurips, search_locals, queries, found, manual_results,
                downloaded_papers, results_file, paused, returned, pdf_calls>>

\* normalize_title(title_a)
CallNormalize ==
    /\ applied = "none"
    /\ applied' = "normalize_title"
    /\ output' = normalize_title(title_a)
    /\ UNCHANGED <<batch_vars, title_a, title_b>>

\* title_similarity(title_a, title_b)
CallSimilarity ==
    /\ applied = "none"
    /\ applied' = "title_similarity"
    /\ output' = title_similarity(title_a, title_b)
    /\ UNCHANGED <<batch_vars, title_a, title_b>>

\* verify_paper_match(title_a, title_b)
CallVerify ==
    /\ applied = "none"
    /\ applied' = "verify_paper_match"
    /\ output' = verify_paper_match(title_a, title_b)
    /\ UNCHANGED <<batch_vars, title_a, title_b>>

TitleNext ==
    \/ CallNormalize
    \/ CallSimilarity
    \/ CallVerify

TitleSpec == TitleInit /\ [][TitleNext]_vars

Last(s) == s[Len(s)]

(***************************************************************************)
(* The properties.                                                         *)
(***************************************************************************)
\* C1: within search_arxiv_by_title, once a candidate of some strategy has
\* been accepted by verify_paper_match, no query of a later strategy is
\* issued for the paper: with an accepted candidate on record, a step of the
\* strategy loop issues no query.
C1_NoQueryAfterAccepted ==
    [][(pc = "strategy" /\ verified_results # <<>>) => queries' = queries]_vars

\* C2: for a paper whose URL encodes an arXiv identifier, no title-search
\* query is issued (the identifier is fetched instead; the program has no
\* such fetch, so no query can be the fall-through of one that found nothing).
C2_IdentifierSkipsSearch ==
    [][(pc = "strategy" /\ ArxivIdTable[paper.paper_url] # None) => queries' = queries]_vars

\* C3: every candidate search_arxiv_by_title returns is one that
\* verify_paper_match accepts for the requested title, whether it comes from
\* the accepted candidates of the strategy loop or from the threshold path
\* over all the candidates seen.
C3_ReturnedIsVerified ==
    (pc = "dispatch" /\ found # <<>>) =>
        \A n \in 1..Len(found) : Verify(title, found[n].title).is_match

\* a candidate was returned for a paper some of whose candidates were rejected
C3_Witness ==
    /\ pc = "dispatch"
    /\ found # <<>>
    /\ Len(all_results) > Len(verified_results)

\* C4: when a candidate has been accepted, search_arxiv_by_title returns
\* exactly one match: an accepted candidate no other accepted candidate has
\* a higher similarity than, and the first of those in the order of
\* verification (the order of verified_results when the strategy loop ends,
\* before the list is sorted).
C4_BestFirstEncountered ==
    [][(pc = "select" /\ verified_results # <<>>) =>
        /\ Len(found') = 1
        /\ \E k \in 1..Len(verified_results) :
              /\ found'[1] = verified_results[k].result
              /\ \A m \in 1..Len(verified_results) :
                    FloatGE(verified_results[k].similarity, verified_results[m].similarity)
              /\ \A m \in 1..(k - 1) :
                    FloatGT(verified_results[k].similarity, verified_results[m].similarity)]_vars

\* two different accepted candidates of the same, highest, similarity: the
\* one verified first was returned
C4_Witness ==
    /\ pc = "dispatch"
    /\ Len(verified_results) = 2
    /\ verified_results[1].result # verified_results[2].result
    /\ verified_results[1].similarity = verified_results[2].similarity
    /\ all_results = <<verified_results[1].result, verified_results[2].result>>
    /\ found = <<verified_results[1].result>>

SearchCallRaises == pc = "strategy" /\ failed' # failed

\* C6: an error of the search call of strategy k stays inside
\* search_arxiv_by_title: the loop goes on to strategy k + 1, or to the
\* selection after the last strategy; the query of strategy k is not issued
\* again and the next query issued is that of strategy k + 1, so that the
\* queries of a paper are those of strategies 1, 2, ... in order, each once.
C6_ErrorMovesToNextStrategy ==
    /\ [](\A n \in 1..Len(queries) : queries[n] = n)
    /\ [](pc = "strategy" => strategy = Len(queries) + 1)
    /\ [][SearchCallRaises =>
            /\ queries' = Append(queries, strategy)
            /\ IF strategy < NumStrategies(is_neurips)
               THEN pc' = "strategy" /\ strategy' = strategy + 1
               ELSE pc' = "select"]_vars

\* the search of strategy 1 raised and the query of strategy 2 returned candidates
C6_Witness ==
    /\ pc = "verify"
    /\ queries = <<1, 2>>
    /\ failed = <<[strategy |-> 1, error |-> "HTTPError"]>>

\* a search call has raised for the current paper
SearchRaised ==
    /\ pc \in {"strategy", "verify", "select", "dispatch", "manual"}
    /\ raised

\* C7 as stated: once a search call has failed for a paper, no further
\* strategy query is issued for it, and the record of the paper is an error
\* outcome: downloaded = false with the error as reason.
C7_SearchErrorAborts ==
    [][SearchRaised =>
          /\ queries' = queries
          /\ downloaded_papers' # downloaded_papers =>
                /\ Last(downloaded_papers').downloaded = FALSE
                /\ Last(downloaded_papers').error \in ErrorTexts]_vars

\* C7, amended: an error of a search call of search_arxiv_by_title does not
\* abort the paper: the step writes no record and leaves the program inside
\* the search.  A record with downloaded = false and the text of an exception
\* as its error is written only for an exception of the manual search or of
\* a download, and that step does end the paper: no query follows for it.
C7_OnlyLaterErrorsAbort ==
    [][/\ SearchCallRaises =>
            /\ downloaded_papers' = downloaded_papers
            /\ i' = i
            /\ pc' \in {"strategy", "select"}
       /\ (/\ downloaded_papers' # downloaded_papers
           /\ ~Last(downloaded_papers').downloaded
           /\ Last(downloaded_papers').error \in ExceptionTexts) =>
            /\ pc \in {"dispatch", "manual"}
            /\ pc' = "loop"
            /\ i' = i + 1
            /\ queries' = queries]_vars

\* a search call raised for the paper, and the paper was downloaded from arXiv
C7_Witness ==
    /\ pc = "sleep"
    /\ failed # <<>>
    /\ failed[1].error \in ErrorTexts
    /\ Len(queries) > failed[1].strategy
    /\ Last(downloaded_papers).downloaded
    /\ "arxiv_id" \in DOMAIN Last(downloaded_papers)
    /\ "manual_search" \notin DOMAIN Last(downloaded_papers)

\* a candidate without a title is at the head of the candidates still to verify
MalformedCandidate == pc = "verify" /\ Head(results).title = NoTitle

\* C8: when a candidate of a response has no title, only that candidate is
\* discarded: the candidates after it in the response are still verified.
C8_OnlyMalformedDiscarded ==
    [][(MalformedCandidate /\ Len(results) > 1) =>
          (pc' = "verify" /\ results' = Tail(results))]_vars

\* C9: an exception raised while resolving or downloading paper i appends a
\* failure record for paper i, with downloaded = false and the text of the
\* exception as error, and the loop goes on with paper i + 1; the batch ends
\* only after the last paper, with one record for each paper, in order, in
\* the results file.
C9_FailureContinuesBatch ==
    /\ [][(/\ downloaded_papers' # downloaded_papers
            /\ ~Last(downloaded_papers').downloaded
            /\ Last(downloaded_papers').error \in ExceptionTexts) =>
              /\ downloaded_papers' =
                    Append(downloaded_papers,
                           [paper_name |-> paper.paper_name, paper_url |-> paper.paper_url,
                            downloaded |-> FALSE, error |-> Last(downloaded_papers').error])
              /\ pc' = "loop"
              /\ i' = i + 1
              /\ results_file' = <<>>]_vars
    /\ [](pc = "loop" => Len(downloaded_papers) = i - 1)
    /\ []((pc = "done" /\ papers # <<>>) =>
            /\ results_file = <<[papers |-> downloaded_papers]>>
            /\ Len(downloaded_papers) = Len(papers)
            /\ \A n \in 1..Len(papers) :
                  /\ downloaded_papers[n].paper_name = papers[n].paper_name
                  /\ downloaded_papers[n].paper_url = papers[n].paper_url)

\* the first paper failed with an exception, the second was processed and the
\* results file was written
C9_Witness ==
    /\ pc = "done"
    /\ Len(papers) = 2
    /\ ~downloaded_papers[1].downloaded
    /\ downloaded_papers[1].error \in ExceptionTexts
    /\ downloaded_papers[2].downloaded
    /\ results_file # <<>>

\* C10: a pause has occurred between the end of the processing of a paper
\* and the first external call made for the next paper, which is the query
\* of strategy 1.
C10_PauseBetweenPapers ==
    (pc = "strategy" /\ i > 1 /\ queries = <<>>) => paused

\* a PDF download call is made in this step
DownloadCall == pc # "loop" /\ pdf_calls' # pdf_calls

\* the current paper has an accepted match: the candidate the search returned,
\* which the verifier accepts, or the candidate of the manual search
AcceptedMatch ==
    \/ pc = "dispatch" /\ found # <<>> /\ Verify(title, found[1].title).is_match
    \/ pc = "manual" /\ manual_results # <<>>

C12_ManualFallback ==
    [][/\ (pc = "dispatch" /\ manual_results' # manual_results) =>
            /\ found = <<>>
            /\ enable_manual_search
            /\ Len(manual_results') <= 1
       /\ (pc = "manual" /\ Len(downloaded_papers') > Len(downloaded_papers)
                         /\ Last(downloaded_papers').downloaded) =>
            /\ Last(downloaded_papers').arxiv_id = manual_results[1].short_id
            /\ UNCHANGED <<all_results, verified_results>>]_vars

(***************************************************************************)
(* C13: whenever the normalized candidate title contains a blacklist       *)
(* phrase that the normalized requested title does not contain,            *)
(* verify_paper_match returns (False, 0.0, "Blacklisted pattern            *)
(* detected"), whatever the score, the containment and the word overlap    *)
(* are; so it does for 'Adam Optimizer Convergence' against 'Existence of  *)
(* Weak Solutions to the Continuity Equation'.                             *)
(***************************************************************************)
BlacklistRejection ==
    [is_match |-> FALSE, similarity |-> Float_0_0, reason |-> "Blacklisted pattern detected"]

C13_BlacklistRejects ==
    applied = "verify_paper_match" =>
        /\ \A norm_a \in {normalize_title(title_a)}, norm_b \in {normalize_title(title_b)} :
              (\E p \in blacklist_patterns : Contains(norm_b, p) /\ ~Contains(norm_a, p))
                  => output = BlacklistRejection
        /\ (title_a = AdamOptimizerConvergence /\ title_b = ExistenceOfWeakSolutions) =>
                output = BlacklistRejection

\* 'Darcy' is contained in 'Darcy Law', all its important words occur there,
\* the score is at least 0.7 and the candidate is not too long: every later
\* rule would accept the pair, and it is rejected for the blacklist phrase
C13_Witness ==
    /\ applied = "verify_paper_match"
    /\ title_a = Darcy /\ title_b = DarcyLaw
    /\ Contains(normalize_title(title_b), normalize_title(title_a))
    /\ FloatGE(title_similarity(title_a, title_b), Float_0_7)
    /\ Len(normalize_title(title_b)) <= 2 * Len(normalize_title(title_a))
    /\ output = BlacklistRejection

(***************************************************************************)
(* C14: for every pair the blacklist check does not reject, a normalized   *)
(* candidate longer than 2.0 times the normalized requested title is       *)
(* rejected with "Candidate title too long", also when the score is at     *)
(* least 0.7 or the requested title is a substring of the candidate.       *)
(***************************************************************************)
C14_TooLongRejects ==
    (/\ applied = "verify_paper_match"
     /\ ~\E p \in blacklist_patterns :
            /\ Contains(normalize_title(title_b), p)
            /\ ~Contains(normalize_title(title_a), p)
     /\ Len(normalize_title(title_b)) > 2 * Len(normalize_title(title_a)))
        => /\ ~output.is_match
           /\ output.reason = "Candidate title too long"

(***************************************************************************)
(* C15: a pair that is neither blacklisted nor too long and whose score    *)
(* is below 0.7 is accepted with "High important word overlap" when at     *)
(* least 80% of the requested title's normalized tokens longer than 4      *)
(* characters occur among the candidate's tokens (a requested title        *)
(* without such tokens has no such fraction, and the rule does not accept  *)
(* it); 'ADOPT: Adaptive Gradient Method with Clipping' against 'Adopt:    *)
(* Adaptive Gradient Methods with Clipping for Robust Optimization' is     *)
(* accepted.                                                               *)
(***************************************************************************)
ImportantWords(t) == {w \in ToSet(Split(normalize_title(t))) : Len(w) > 4}

BelowHighSimilarity(ta, tb) ==
    ~FloatGE(title_similarity(ta, tb), Float_0_7)

C15_ImportantWordOverlapAccepts ==
    applied = "verify_paper_match" =>
        /\ \A norm_a \in {normalize_title(title_a)}, norm_b \in {normalize_title(title_b)},
              important \in {ImportantWords(title_a)} :
              (/\ ~\E p \in blacklist_patterns : Contains(norm_b, p) /\ ~Contains(norm_a, p)
               /\ Len(norm_b) <= 2 * Len(norm_a)
               /\ BelowHighSimilarity(title_a, title_b))
                => /\ (/\ important # {}
                       /\ 10 * Cardinality(important \cap ToSet(Split(norm_b)))
                             >= 8 * Cardinality(important))
                        => /\ output.is_match
                           /\ output.reason = "High important word overlap"
                   /\ important = {} => output.reason # "High important word overlap"
        /\ (title_a = AdoptRequested /\ title_b = AdoptCandidate) => output.is_match

\* the example pair: four of the five important words, a score below 0.7,
\* neither title contained in the other
C15_Witness ==
    /\ applied = "verify_paper_match"
    /\ title_a = AdoptRequested /\ title_b = AdoptCandidate
    /\ Cardinality(ImportantWords(title_a)) = 5
    /\ Cardinality(ImportantWords(title_a) \cap ImportantWords(title_b)) = 4
    /\ BelowHighSimilarity(title_a, title_b)
    /\ ~Contains(normalize_title(title_b), normalize_title(title_a))
    /\ output.is_match
    /\ output.reason = "High important word overlap"

(***************************************************************************)
(* C16: verify_paper_match returns a decision for every pair of title      *)
(* strings, empty titles and titles that normalize to the empty string     *)
(* included; the similarity lies in [0,1], the reason is one of the six    *)
(* fixed reasons, and the reason is an accepting one exactly when the      *)
(* pair is accepted.                                                       *)
(***************************************************************************)
Reasons ==
    { "High similarity", "High important word overlap", "Title containment",
      "Low similarity", "Blacklisted pattern detected", "Candidate title too long" }

AcceptingReasons ==
    { "High similarity", "High important word overlap", "Title containment" }

\* C16: the decision of every call; CallVerify has no condition on the
\* titles, so the call is made for every pair, and its value is the output
\* read here
C16_AlwaysADecision ==
    applied = "verify_paper_match" =>
        /\ DOMAIN output = {"is_match", "similarity", "reason"}
        /\ output.is_match \in BOOLEAN
        /\ FloatGE(output.similarity, Float_0_0)
        /\ FloatGE(Float_1_0, output.similarity)
        /\ output.reason \in Reasons
        /\ output.is_match <=> output.reason \in AcceptingReasons

\* an empty requested title and a candidate that normalizes to the empty
\* string
C16_Witness ==
    /\ applied = "verify_paper_match"
    /\ title_a = <<>>
    /\ title_b # <<>> /\ normalize_title(title_b) = <<>>
    /\ output.reason \in Reasons

(***************************************************************************)
(* C17: normalize_title is idempotent: normalizing its output again gives  *)
(* the same output, also for titles with the five Greek letters,           *)
(* punctuation and stop words.                                             *)
(***************************************************************************)
C17_NormalizeIdempotent ==
    applied = "normalize_title" => normalize_title(output) = output

\* a title with the five Greek letters, punctuation and stop words
C17_Witness ==
    /\ applied = "normalize_title"
    /\ title_a = GreekTitle
    /\ output = GreekTitleNormalized
    /\ output # title_a

(***************************************************************************)
(* C18: the output of normalize_title contains only lowercase              *)
(* alphanumeric characters and single spaces between tokens: every input   *)
(* character that is neither alphanumeric nor whitespace, the underscore   *)
(* included, is replaced by a space; there is no leading, trailing or      *)
(* doubled space; the empty input yields the empty output.                 *)
(***************************************************************************)
IsLowerAlnum(c) ==
    \/ \E n \in DOMAIN LowerCase : LowerCase[n] = c
    \/ c \in Digits

C18_OnlyAlnumAndSingleSpaces ==
    applied = "normalize_title" =>
        /\ \A n \in DOMAIN output : IsLowerAlnum(output[n]) \/ output[n] = " "
        /\ output # <<>> => output[1] # " " /\ output[Len(output)] # " "
        /\ \A n \in 1..(Len(output) - 1) : ~(output[n] = " " /\ output[n + 1] = " ")
        /\ title_a = <<>> => output = <<>>

(***************************************************************************)
(* C19: title_similarity is symmetric: title_similarity(a, b) equals       *)
(* title_similarity(b, a) for every pair of titles, the sequence ratio of  *)
(* the normalized strings included.                                        *)
(***************************************************************************)
C19_SimilaritySymmetric ==
    applied = "title_similarity" => output = title_similarity(title_b, title_a)

(***************************************************************************)
(* C20: title_similarity returns a value between 0 and 1 inclusive for     *)
(* every pair of titles, and title_similarity(a, a) is 1.0 for every       *)
(* title a whose normalization is not empty.                               *)
(***************************************************************************)
C20_SimilarityRange ==
    applied = "title_similarity" =>
        /\ FloatGE(output, Float_0_0)
        /\ FloatGE(Float_1_0, output)
        /\ (title_b = title_a /\ normalize_title(title_a) # <<>>) => output = Float_1_0
        \* every title_a against itself, read once for each title_a: in the
        \* states where title_b is the empty title
        /\ (title_b = <<>> /\ normalize_title(title_a) # <<>>) =>
              title_similarity(title_a, title_a) = Float_1_0

\* a title with a non-empty normalization scored against itself
C20_Witness ==
    /\ applied = "title_similarity"
    /\ title_a = AdamOptimizerConvergence
    /\ title_b = title_a
    /\ normalize_title(title_a) # <<>>
    /\ output = Float_1_0

(***************************************************************************)
(* C21: the strategy queries of a paper are issued strictly in index       *)
(* order, one at a time, each only after all candidates of the previous    *)
(* strategy were verified; without the venue flag only strategies 1 to 4   *)
(* are issued, and strategies 5, 6, 7 follow strategy 4, in that order,    *)
(* only for a paper whose source URL is a NeurIPS URL.                     *)
(***************************************************************************)
QueryIssued == pc = "strategy" /\ queries' # queries

InIndexOrder ==
    /\ queries' = Append(queries, Len(queries) + 1)
    /\ queries = [n \in 1..Len(queries) |-> n]
    /\ results = <<>>
    /\ Len(queries') <= 7
    /\ Len(queries') > 4 => IsNeurips(Characters[paper.paper_url])

\* the loop over a response is left for the next strategy
LeavesResponse == pc = "verify" /\ pc' = "strategy"

C21_StrategiesInOrder ==
    [][/\ QueryIssued => InIndexOrder
       /\ LeavesResponse =>
            /\ Len(results) = 1
            /\ all_results' = Append(all_results, Head(results))]_vars

(***************************************************************************)
(* search_arxiv_by_title: the main concept of a NeurIPS title, and calls   *)
(* of its computation on titles made of a word and the separators.         *)
(***************************************************************************)
\* the list of `for separator in [...]`
separators ==
    << <<" ","f","o","r"," ">>,
       <<" ","w","i","t","h"," ">>,
       <<" ","u","s","i","n","g"," ">>,
       <<" ","v","i","a"," ">>,
       <<" ","i","n"," ">>,
       <<" ","o","n"," ">> >>

\* the title cut at the leftmost occurrence of any separator
main_concept_leftmost(title_arg) ==
    LET at == {Find(title_arg, separators[n]) : n \in DOMAIN separators} \ {0}
    IN IF at = {} THEN title_arg
       ELSE Slice(title_arg, 1, CHOOSE n \in at : \A o \in at : n <= o)

\* main_concept: title.split(separator)[0] for the first separator of the
\* list that occurs in the title, the title when none occurs
main_concept(title_arg) ==
    LET present == SelectSeq(separators, LAMBDA separator : Contains(title_arg, separator))
    IN IF present = <<>> THEN title_arg
       ELSE Slice(title_arg, 1, Find(title_arg, present[1]))

ConceptPieces == {<<"A","d","a","m">>} \cup ToSet(separators)

ConceptTitles == {Concat(w) : w \in SeqsUpTo(ConceptPieces, MaxPieces + 2)}

ConceptInit ==
    /\ title_a \in ConceptTitles
    /\ title_b = <<>>
    /\ applied = "none"
    /\ output = <<>>
    /\ previous_results = <<>>
    /\ no_manual = FALSE
    /\ papers = <<>>
    /\ enable_manual_search = FALSE
    /\ similarity_threshold = Float_0_5
    /\ pc = "done"
    /\ i = 1
    /\ is_neurips = TRUE
    /\ strategy = 1
    /\ results = <<>>
    /\ all_results = <<>>
    /\ verified_results = <<>>
    /\ failed = <<>>
    /\ raised = FALSE
    /\ queries = <<>>
    /\ found = <<>>
    /\ manual_results = <<>>
    /\ downloaded_papers = <<>>
    /\ results_file = <<>>
    /\ paused = FALSE
    /\ returned = 0
    /\ pdf_calls = <<>>

\* the computation of main_concept for title_a
CallMainConcept ==
    /\ applied = "none"
    /\ applied' = "main_concept"
    /\ output' = main_concept(title_a)
    /\ UNCHANGED <<batch_vars, title_a, title_b>>

ConceptNext == CallMainConcept

ConceptSpec == ConceptInit /\ [][ConceptNext]_vars

(***************************************************************************)
(* C22, as stated: the main concept is the part of the title before the    *)
(* leftmost occurrence in the title of any separator of the list, so it    *)
(* contains none of the separators; it is the full title when no           *)
(* separator occurs.                                                       *)
(***************************************************************************)
SeparatorsIn(s) == {n \in DOMAIN separators : Contains(s, separators[n])}

C22_CutAtLeftmostSeparator ==
    applied = "main_concept" =>
        /\ SeparatorsIn(output) = {}
        /\ IF SeparatorsIn(title_a) = {}
           THEN output = title_a
           ELSE \E n \in SeparatorsIn(title_a) :
                    Slice(title_a, 1, Len(output) + Len(separators[n]) + 1)
                        = output \o separators[n]

(***************************************************************************)
(* C22, amended: the main concept is the part of the title before the      *)
(* first occurrence of one separator, the first of the list that occurs    *)
(* in the title; it does not contain that separator; it is the full title  *)
(* when no separator occurs.                                               *)
(***************************************************************************)
C22_CutAtFirstListedSeparator ==
    applied = "main_concept" =>
        IF SeparatorsIn(title_a) = {}
        THEN output = title_a
        ELSE LET first == CHOOSE n \in SeparatorsIn(title_a) :
                              \A o \in SeparatorsIn(title_a) : n <= o
             IN /\ ~Contains(output, separators[first])
                /\ Len(title_a) >= Len(output) + Len(separators[first])
                /\ Slice(title_a, 1, Len(output) + Len(separators[first]) + 1)
                       = output \o separators[first]

\* 'Adam in Adam for ': the concept is cut at ' for ' and contains ' in '
C22_Witness ==
    /\ applied = "main_concept"
    /\ Contains(title_a, separators[1])
    /\ Contains(output, separators[5])
    /\ output # title_a

(***************************************************************************)
(* C23: within one batch the results log is append-only and the papers     *)
(* are processed strictly one after another: after paper i has been        *)
(* processed the log holds exactly i records, the j-th being the record    *)
(* of the j-th input paper; no record is changed or removed afterwards;    *)
(* download_results.json is written exactly once, after the last paper.    *)
(***************************************************************************)
RecordAppended ==
    /\ Len(downloaded_papers') = Len(downloaded_papers) + 1
    /\ \A n \in DOMAIN downloaded_papers : downloaded_papers'[n] = downloaded_papers[n]
    /\ Len(downloaded_papers') = i
    /\ Last(downloaded_papers').paper_name = papers[i].paper_name
    /\ Last(downloaded_papers').paper_url = papers[i].paper_url
    /\ results_file = <<>>

FileWritten ==
    /\ results_file = <<>>
    /\ i = Len(papers) + 1
    /\ Len(downloaded_papers) = Len(papers)
    /\ results_file' = <<[papers |-> downloaded_papers]>>
    /\ UNCHANGED downloaded_papers

C23_AppendOnlyLog ==
    /\ [][/\ downloaded_papers' # downloaded_papers => RecordAppended
          /\ results_file' # results_file => FileWritten
          /\ i' = i \/ (i' = i + 1 /\ Len(downloaded_papers') = i)]_vars
    /\ [](/\ Len(downloaded_papers) \in {i - 1, i}
          /\ pc = "loop" => Len(downloaded_papers) = i - 1
          /\ \A n \in DOMAIN downloaded_papers :
                /\ downloaded_papers[n].paper_name = papers[n].paper_name
                /\ downloaded_papers[n].paper_url = papers[n].paper_url
          /\ (pc = "done" /\ papers # <<>>) => results_file = <<[papers |-> downloaded_papers]>>)

\* a batch of two papers, the first downloaded and the second not, written
\* to the results file after the second
C23_Witness ==
    /\ pc = "done"
    /\ Len(papers) = 2
    /\ Len(downloaded_papers) = 2
    /\ downloaded_papers[1].downloaded
    /\ ~downloaded_papers[2].downloaded
    /\ results_file = <<[papers |-> downloaded_papers]>>

(***************************************************************************)
(* C24: the highest-scoring-candidate fallback never yields a match: when  *)
(* no candidate was accepted during the strategy loop,                     *)
(* search_arxiv_by_title returns no match for every value of               *)
(* similarity_threshold, so its result is the same for any two threshold   *)
(* values, given the same search responses.                                *)
(***************************************************************************)
SearchReturnsValue == pc = "select" /\ pc' = "dispatch"

OtherThresholds == Thresholds \cup {Float_0_0, Float_0_4, Float_0_7, Float_1_0}

C24_FallbackNeverMatches ==
    [][SearchReturnsValue =>
          /\ verified_results = <<>> => found' = <<>>
          /\ \A t \in OtherThresholds :
                found' = SelectMatch(title, verified_results, all_results,
                                     EffectiveThreshold(t, is_neurips))]_vars

\* no candidate was accepted, the best candidate seen reaches the threshold,
\* and no match was returned
C24_Witness ==
    /\ pc = "dispatch"
    /\ verified_results = <<>>
    /\ found = <<>>
    /\ \E n \in DOMAIN all_results :
          FloatGE(Similarity(title, all_results[n].title),
                EffectiveThreshold(similarity_threshold, is_neurips))

(***************************************************************************)
(* C25: verify_paper_match accepts a candidate only if the normalized      *)
(* requested title and the normalized candidate title share at least one   *)
(* token; it never accepts when either normalized title is empty, and      *)
(* never on a substring relation that is not aligned on token boundaries.  *)
(***************************************************************************)
Tokens(t) == ToSet(Split(normalize_title(t)))

C25_AcceptsOnlySharedToken ==
    (applied = "verify_paper_match" /\ output.is_match) =>
        /\ Tokens(title_a) \cap Tokens(title_b) # {}
        /\ normalize_title(title_a) # <<>>
        /\ normalize_title(title_b) # <<>>
        /\ output.reason = "Title containment" =>
              \/ Tokens(title_a) \subseteq Tokens(title_b)
              \/ Tokens(title_b) \subseteq Tokens(title_a)

(***************************************************************************)
(* C26: every phrase of the blacklist can trigger a rejection: for each    *)
(* blacklist phrase p, a candidate whose raw title contains p and no       *)
(* other blacklist phrase, compared against a requested title that does    *)
(* not contain p, is rejected with "Blacklisted pattern detected"; so it   *)
(* is for p = 'existence of weak solutions'.                               *)
(***************************************************************************)
\* the blacklist phrases the title contains, letter case apart
PhrasesIn(t) ==
    {p \in blacklist_patterns : Contains([n \in 1..Len(t) |-> LowerChar(t[n])], p)}

C26_EveryPhraseRejects ==
    applied = "verify_paper_match" =>
        \A p \in blacklist_patterns :
            (PhrasesIn(title_b) = {p} /\ p \notin PhrasesIn(title_a))
                => output = BlacklistRejection

(***************************************************************************)
(* main with --retry-failed: a batch over the papers that an earlier run   *)
(* recorded as not downloaded.                                             *)
(***************************************************************************)
\* the records an earlier batch can have written for the papers of the pool
PreviousRecords ==
    {ArxivRecord(p, [title |-> "Adam", short_id |-> "2310.17042v1",
                     entry_id |-> "http://arxiv.org/abs/2310.17042v1"]) : p \in PaperPool}
    \cup {FailureRecord(p, "No results found on arXiv and direct download failed") :
             p \in PaperPool}

\* main is entered with --retry-failed; download_results.json is absent or
\* holds the log of an earlier batch
RetryInit ==
    /\ previous_results \in
          {<<>>} \cup {<<[papers |-> log]>> : log \in SeqsUpTo(PreviousRecords, MaxPapers)}
    /\ results_file = previous_results
    /\ no_manual = FALSE
    /\ papers = <<>>
    /\ enable_manual_search \in BOOLEAN
    /\ similarity_threshold = Float_0_5
    /\ pc = "main"
    /\ i = 1
    /\ is_neurips = FALSE
    /\ strategy = 1
    /\ results = <<>>
    /\ all_results = <<>>
    /\ verified_results = <<>>
    /\ failed = <<>>
    /\ raised = FALSE
    /\ queries = <<>>
    /\ found = <<>>
    /\ manual_results = <<>>
    /\ downloaded_papers = <<>>
    /\ paused = FALSE
    /\ returned = 0
    /\ pdf_calls = <<>>
    /\ title_a = <<>>
    /\ title_b = <<>>
    /\ applied = "none"
    /\ output = <<>>

\* failed_papers = [p for p in results.get('papers', []) if not p.get('downloaded', False)]
failed_papers(content) == SelectSeq(content.papers, LAMBDA p : ~p.downloaded)

\* `if args.retry_failed:` up to the call of download_papers_from_json on
\* retry_papers.json, or the return when there is nothing to retry
RetryFailed ==
    /\ pc = "main"
    /\ IF results_file # <<>> /\ failed_papers(results_file[1]) # <<>>
       THEN papers' = failed_papers(results_file[1]) /\ pc' = "loop"
       ELSE papers' = papers /\ pc' = "done"
    /\ UNCHANGED <<enable_manual_search, similarity_threshold, previous_results, no_manual, title_vars,
                   pdf_calls, i, is_neurips, search_locals, queries, found, manual_results,
                   downloaded_papers, results_file, paused, returned>>

RetryNext ==
    \/ RetryFailed
    \/ StartPaper
    \/ SearchRaises
    \/ SearchReturns
    \/ VerifyCandidate
    \/ SelectResult
    \/ DownloadArxiv
    \/ DownloadArxivRaises
    \/ ManualSearch
    \/ ManualSearchRaises
    \/ ManualDownload
    \/ Unresolved
    \/ DirectDownload
    \/ DirectDownloadFails
    \/ Sleep
    \/ WriteResults

RetrySpec == RetryInit /\ [][RetryNext]_vars

(***************************************************************************)
(* C27: a run with --retry-failed preserves the earlier successes: after   *)
(* the retry batch download_results.json still contains the records with   *)
(* downloaded = true of the first batch, together with the new outcomes    *)
(* of the retried papers.                                                  *)
(***************************************************************************)
C27_RetryKeepsSuccesses ==
    (pc = "done" /\ previous_results # <<>>) =>
        /\ results_file # <<>>
        /\ \A n \in DOMAIN previous_results[1].papers :
              previous_results[1].papers[n].downloaded =>
                 \E m \in DOMAIN results_file[1].papers :
                    results_file[1].papers[m] = previous_results[1].papers[n]
        /\ \A n \in DOMAIN papers :
              \E m \in DOMAIN results_file[1].papers :
                 /\ results_file[1].papers[m].paper_name = papers[n].paper_name
                 /\ results_file[1].papers[m].paper_url = papers[n].paper_url
                 /\ results_file[1].papers[m] = downloaded_papers[n]

(***************************************************************************)
(* run_all.py: the download step, launched as a command of                 *)
(* download_papers.py.                                                     *)
(***************************************************************************)
\* download_cmd of run_all.py: the option names of the command line
download_cmd(flag) ==
    <<"--json", "--threshold">> \o (IF flag THEN <<"--no-manual">> ELSE <<>>)

RECURSIVE ParseManual(_, _)
\* argparse of download_papers.py on dest 'manual': --manual stores True,
\* --no-manual stores False, the default is False
ParseManual(argv, manual) ==
    IF argv = <<>> THEN manual
    ELSE ParseManual(Tail(argv),
                     IF Head(argv) = "--manual" THEN TRUE
                     ELSE IF Head(argv) = "--no-manual" THEN FALSE
                     ELSE manual)

\* run_all.py has written the papers file and is about to download
RunAllInit ==
    /\ no_manual \in BOOLEAN
    /\ papers \in SeqsUpTo(PaperPool, MaxPapers)
    /\ enable_manual_search = FALSE
    /\ similarity_threshold = Double(6, 10)
    /\ previous_results = <<>>
    /\ pc = "run_all"
    /\ i = 1
    /\ is_neurips = FALSE
    /\ strategy = 1
    /\ results = <<>>
    /\ all_results = <<>>
    /\ verified_results = <<>>
    /\ failed = <<>>
    /\ raised = FALSE
    /\ queries = <<>>
    /\ found = <<>>
    /\ manual_results = <<>>
    /\ downloaded_papers = <<>>
    /\ results_file = <<>>
    /\ paused = FALSE
    /\ returned = 0
    /\ pdf_calls = <<>>
    /\ title_a = <<>>
    /\ title_b = <<>>
    /\ applied = "none"
    /\ output = <<>>

\* run_command(download_cmd), and main of download_papers.py up to its call
\* of download_papers_from_json
LaunchDownload ==
    /\ pc = "run_all"
    /\ enable_manual_search' = ParseManual(download_cmd(no_manual), FALSE)
    /\ pc' = "loop"
    /\ UNCHANGED <<papers, similarity_threshold, previous_results, no_manual, title_vars,
                   pdf_calls, i, is_neurips, search_locals, queries, found, manual_results,
                   downloaded_papers, results_file, paused, returned>>

RunAllNext ==
    \/ LaunchDownload
    \/ EmptyInput
    \/ StartPaper
    \/ SearchRaises
    \/ SearchReturns
    \/ VerifyCandidate
    \/ SelectResult
    \/ DownloadArxiv
    \/ DownloadArxivRaises
    \/ Unresolved
    \/ DirectDownload
    \/ DirectDownloadFails
    \/ Sleep
    \/ WriteResults

RunAllSpec == RunAllInit /\ [][RunAllNext]_vars

(***************************************************************************)
(* C28: when the download step is launched through run_all.py, the manual  *)
(* fallback is enabled unless --no-manual is given: for a paper the        *)
(* automated search did not resolve, download_papers calls                 *)
(* manual_search_arxiv when run_all was started without --no-manual, and   *)
(* never when it was started with --no-manual.  manual_search_arxiv is     *)
(* called for an unresolved paper exactly when enable_manual_search holds. *)
(***************************************************************************)
C28_ManualUnlessNoManual ==
    (pc = "dispatch" /\ found = <<>>) => (enable_manual_search <=> ~no_manual)

=============================================================================
